---- MODULE Spec2Model ----
(***************************************************************************)
(* The compiler download cache of blockscout/verification                  *)
(* (src/src/compiler/download_cache.rs) as a state machine.                *)
(*                                                                         *)
(* Every caller is a task that runs DownloadCache::get or                  *)
(* DownloadCache::load_from_dir one atomic step at a time: taking and      *)
(* releasing the map mutex, asking for the read or write lock of an entry  *)
(* (tokio::sync::RwLock, a FIFO-fair lock: a release hands the lock to the *)
(* head of the wait queue), the call of Fetcher::fetch and its return.     *)
(* A get future can be dropped (cancelled) at each of its await points.    *)
(***************************************************************************)
EXTENDS Naturals, Sequences, FiniteSets, TLC

VARIABLES
    pc,          \* task -> the place of the task in get / load_from_dir
    ver,         \* task -> the version the task is working on
    mapLock,     \* the holder of DownloadCache.cache (parking_lot::Mutex)
    inMap,       \* the keys of the HashMap
    slot,        \* version -> the Option<PathBuf> inside the entry's RwLock
    writer,      \* version -> the task holding the entry's write guard
    readers,     \* version -> the tasks holding a read guard of the entry
    queue,       \* version -> the tasks waiting for the entry lock, FIFO
    fout,        \* task -> what Fetcher::fetch returned to this get
    res,         \* task -> what get / load_from_dir returned
    todo,        \* task -> the directory names load_from_dir still has to visit
    solc,        \* task -> the solc_path of the directory load_from_dir is at
    disk,        \* directory name -> the solc file in it
    manifest,    \* the versions the fetcher knows a hash for
    fetchCount,  \* version -> calls of Fetcher::fetch so far
    fetches,     \* task -> calls of Fetcher::fetch by the running get
    started,     \* version -> get calls started so far
    loads,       \* load_from_dir calls started so far
    okResults,   \* version -> the paths successful gets have returned
    dropSeen,    \* task -> the fetch it was waiting for was dropped by a cancel
    savers,      \* the blocking save tasks write_executable has spawned
    wx,          \* task -> the (bytes, sha) of the write_executable it awaits
    mismatched,  \* the versions a write_executable has failed the hash check for
    snap,        \* the value inside RefreshableVersions.versions
    upstream,    \* what fetch_versions would read from the source right now
    rpc,         \* the place of the refresh job
    rnew,        \* the value the running tick has fetched
    rguards,     \* the readers holding a read guard of the snapshot
    seen,        \* reader -> the value its last read returned
    wlocks,      \* write locks update_versions has taken so far
    outcomes,    \* how the ticks so far have ended, in order
    lastOk,      \* the value of the last successful fetch_versions
    wguard,      \* the holder of the write guard of the snapshot
    s3,          \* task -> the two object GETs of its S3Fetcher::fetch_file
    listing,     \* the common prefixes the bucket lists right now
    vread        \* the tasks whose fetch_file holds `versions`, a read guard of the list

\* the download cache
cacheVars == <<pc, ver, mapLock, inMap, slot, writer, readers, queue, fout, res,
               todo, solc, disk, manifest, fetchCount, fetches, started, loads,
               okResults, dropSeen>>

\* the blocking tasks of write_executable
fsVars == <<savers, wx, mismatched>>

\* the version list and its refresh job
refreshVars == <<snap, upstream, rpc, rnew, rguards, seen, wlocks, outcomes,
                 lastOk, wguard>>

\* the downloads of S3Fetcher
s3Vars == <<s3, listing, vread>>

vars == <<cacheVars, fsVars, refreshVars, s3Vars>>

----------------------------------------------------------------------------
(* Bounds of the model *)

\* the calls (get and load_from_dir together) a behaviour starts
MaxCalls == 3

\* the ticks of the refresh schedule in a behaviour
MaxTicks == 3

\* the calls of a behaviour in the specifications whose calls take more
\* steps each: downloads, save tasks, refreshes, fair scheduling
MaxGets == 2

\* the tasks that can be inside the cache at the same time
Tasks == {1, 2, 3}
Versions == {1, 2}
NoTask == 0
NoVer == 0

\* the readers of the version list
Readers == {1, 2}

\* in place of a version list where there is none: nothing fetched, nothing
\* read yet
NoList == {NoVer}

----------------------------------------------------------------------------
(* Values *)

None == <<>>

\* FetchError (src/src/compiler/fetcher.rs)
ErrKinds == {"NotFound", "Fetch", "HashMismatch", "File", "Schedule"}

Ok(p) == [tag |-> "ok", val |-> p]
Err(e) == [tag |-> "err", val |-> <<e>>]
NoRes == [tag |-> "none", val |-> <<>>]

\* Version::to_string: the canonical name of a version
Format(v) == <<"v", v>>

Garbage == <<"garbage", 0>>
DirNames == {Format(v) : v \in Versions} \cup {Garbage}

\* Version::from_str: the canonical names parse, nothing else does
Parses(name) == \E v \in Versions : Format(v) = name
FromStr(name) == CHOOSE v \in Versions : Format(v) = name

\* path.clone() of a directory entry with "solc" pushed
SolcPath(name) == <<"folder", name, "solc">>

\* the bytes of the genuine compiler binary of v, and bytes that are none
Solc(v) == <<"solc", v>>
Junk == <<"junk", 0>>

\* what a directory holds in place of a solc file: no such directory, no file
NoDir == <<"nodir", 0>>
NoFile == <<"nofile", 0>>

\* Sha256::digest, free of collisions on the bytes of the model
Sha256(b) == <<"sha256", b>>

\* the hash the version list declares for v
Declared(v) == Sha256(Solc(v))

\* check_hashsum(bytes, expected): Ok exactly when the digest is the expected
CheckHashsum(b, expected) == Sha256(b) = expected

\* the path write_executable returns: folder.join(ver.to_string()).join("solc")
FetchedPath(v) == SolcPath(Format(v))

----------------------------------------------------------------------------
(* The entry lock: tokio::sync::RwLock<Option<PathBuf>>.  A lock state is a
   record [w, r, q, woken]: the writer, the readers, the FIFO wait queue and
   the tasks a release has just handed the lock to. *)

WantsWrite(t) == pc[t] \in {"f_wait", "l_wait"}

\* the place a woken task resumes at: right after its .await
HeldPc(t) ==
    CASE pc[t] = "tg_wait" -> "tg_held"
      [] pc[t] = "f_wait" -> "f_held"
      [] pc[t] = "l_wait" -> "l_held"
      [] OTHER -> pc[t]

\* a mutation of WriteFree: the write lock no longer excludes anybody
WriteFreeShared(w, r) == TRUE

\* write() is granted only when nobody holds the lock
WriteFree(w, r) == w = NoTask /\ r = {}

\* read() is granted whenever no writer holds the lock
ReadFree(w) == w = NoTask

RECURSIVE Grant(_)
\* the lock is handed to the waiters in queue order, as far as it goes
Grant(L) ==
    IF L.q = <<>> THEN L
    ELSE LET h == Head(L.q) IN
         IF WantsWrite(h)
         THEN IF WriteFree(L.w, L.r)
              THEN [w |-> h, r |-> L.r, q |-> Tail(L.q),
                    woken |-> L.woken \cup {h}]
              ELSE L
         ELSE IF ReadFree(L.w)
              THEN Grant([w |-> L.w, r |-> L.r \cup {h}, q |-> Tail(L.q),
                          woken |-> L.woken \cup {h}])
              ELSE L

Without(q, t) == SelectSeq(q, LAMBDA u : u # t)

\* the lock of v once t has dropped its guard or left the queue
Released(t, v) ==
    Grant([w |-> IF writer[v] = t THEN NoTask ELSE writer[v],
           r |-> readers[v] \ {t},
           q |-> Without(queue[v], t),
           woken |-> {}])

\* t drops what it has of the lock of v and goes on at newpc
Unlock(t, v, newpc) ==
    LET L == Released(t, v) IN
    /\ writer' = [writer EXCEPT ![v] = L.w]
    /\ readers' = [readers EXCEPT ![v] = L.r]
    /\ queue' = [queue EXCEPT ![v] = L.q]
    /\ pc' = [u \in Tasks |->
                IF u = t THEN newpc
                ELSE IF u \in L.woken THEN HeldPc(u) ELSE pc[u]]

\* lock.read().await: at once when no writer holds and nobody waits
AcquireRead(t, v, heldpc, waitpc) ==
    IF ReadFree(writer[v]) /\ queue[v] = <<>>
    THEN /\ readers' = [readers EXCEPT ![v] = @ \cup {t}]
         /\ pc' = [pc EXCEPT ![t] = heldpc]
         /\ UNCHANGED <<writer, queue>>
    ELSE /\ queue' = [queue EXCEPT ![v] = Append(@, t)]
         /\ pc' = [pc EXCEPT ![t] = waitpc]
         /\ UNCHANGED <<writer, readers>>

\* lock.write().await: at once when the lock is free and nobody waits
AcquireWrite(t, v, heldpc, waitpc) ==
    IF WriteFree(writer[v], readers[v]) /\ queue[v] = <<>>
    THEN /\ writer' = [writer EXCEPT ![v] = t]
         /\ pc' = [pc EXCEPT ![t] = heldpc]
         /\ UNCHANGED <<readers, queue>>
    ELSE /\ queue' = [queue EXCEPT ![v] = Append(@, t)]
         /\ pc' = [pc EXCEPT ![t] = waitpc]
         /\ UNCHANGED <<writer, readers>>

----------------------------------------------------------------------------
(* The map mutex: the guard lives to the end of the block that took it. *)

\* a mutation of TryGetBlockEnd: the guard outlives the lookup block
TryGetGuardKept(t) == t

\* try_get: `cache` is dropped at the end of the block (line 24)
TryGetBlockEnd(t) == NoTask

\* a mutation of FetchBlockEnd: the guard is held to the end of fetch
FetchGuardKept(t) == t

\* fetch: `cache` is dropped at the end of the block (line 55)
FetchBlockEnd(t) == NoTask

\* a guard still alive when the function returns is dropped there
ScopeExit(t) == IF mapLock = t THEN NoTask ELSE mapLock

----------------------------------------------------------------------------
(* DownloadCache::get *)

Calls == loads + started[1] + started[2]

\* a new call runs on the first task that is free
FirstIdle(t) == pc[t] = "idle" /\ \A u \in Tasks : pc[u] = "idle" => t <= u

\* a mutation of OrDefault: insert() of a fresh entry in place of or_default()
FreshEntry(v) == None

\* cache.entry(ver).or_default(): the entry that is there, or an empty one
OrDefault(v) == slot[v]

\* a mutation of EntryAsRef: the slot is not looked at again under the lock
NotRechecked(v) == None

\* a mutation of EntryAsRef: a path counts only while its version is listed
ListedEntry(v) == IF v \in snap THEN slot[v] ELSE None

\* entry.as_ref() under the write guard (line 57)
EntryAsRef(v) == slot[v]

\* a mutation of FileAsRef: an entry of the map is taken to have its file at
\* the place a download would put it
AssumedFile(v) == FetchedPath(v)

\* file.as_ref().cloned() under the read guard (line 28)
FileAsRef(v) == slot[v]

\* a mutation of FetchErrPc: the fetch is tried again after an error
RetryPc == "f_held"

\* `?` on the fetcher's error leaves fetch (line 61)
FetchErrPc == "ret"

\* a mutation of Propagated: every fetcher error is reported as Fetch
AsFetchError(o) == Err("Fetch")

\* `?` hands the fetcher's error to the caller as it is
Propagated(o) == o

StartGet(t, v) ==
    /\ FirstIdle(t)
    /\ Calls < MaxCalls
    /\ pc' = [pc EXCEPT ![t] = "tg_lock"]
    /\ ver' = [ver EXCEPT ![t] = v]
    /\ started' = [started EXCEPT ![v] = @ + 1]
    /\ UNCHANGED <<mapLock, inMap, slot, writer, readers, queue, fout, res,
                   todo, solc, disk, manifest, fetchCount, fetches, loads,
                   okResults, dropSeen, fsVars,
                   refreshVars, s3Vars>>

\* try_get: self.cache.lock()
TryGetLock(t) ==
    /\ pc[t] = "tg_lock"
    /\ mapLock = NoTask
    /\ mapLock' = t
    /\ pc' = [pc EXCEPT ![t] = "tg_locked"]
    /\ UNCHANGED <<ver, inMap, slot, writer, readers, queue, fout, res, todo, solc,
                   disk, manifest, fetchCount, fetches, started, loads,
                   okResults, dropSeen, fsVars,
                   refreshVars, s3Vars>>

\* try_get: cache.get(ver).cloned(), end of the block
TryGetLookup(t) ==
    /\ pc[t] = "tg_locked"
    /\ mapLock' = TryGetBlockEnd(t)
    /\ pc' = [pc EXCEPT ![t] = IF ver[t] \in inMap THEN "tg_read" ELSE "f_lock"]
    /\ UNCHANGED <<ver, inMap, slot, writer, readers, queue, fout, res, todo, solc,
                   disk, manifest, fetchCount, fetches, started, loads,
                   okResults, dropSeen, fsVars,
                   refreshVars, s3Vars>>

\* try_get: lock.read().await
TryGetRead(t) ==
    /\ pc[t] = "tg_read"
    /\ AcquireRead(t, ver[t], "tg_held", "tg_wait")
    /\ UNCHANGED <<ver, mapLock, inMap, slot, fout, res, todo, solc, disk, manifest,
                   fetchCount, fetches, started, loads, okResults, dropSeen, fsVars,
                   refreshVars, s3Vars>>

\* try_get: file.as_ref().cloned(), the read guard dropped; get's match
TryGetPeek(t) ==
    LET v == ver[t] IN
    /\ pc[t] = "tg_held"
    /\ Unlock(t, v, IF FileAsRef(v) # None THEN "ret" ELSE "f_lock")
    /\ res' = [res EXCEPT
                 ![t] = IF FileAsRef(v) # None THEN Ok(FileAsRef(v)) ELSE NoRes]
    /\ okResults' = [okResults EXCEPT
                       ![v] = IF FileAsRef(v) # None THEN @ \cup {FileAsRef(v)}
                              ELSE @]
    /\ UNCHANGED <<ver, mapLock, inMap, slot, fout, todo, solc, disk, manifest,
                   fetchCount, fetches, started, loads, dropSeen, fsVars,
                   refreshVars, s3Vars>>

\* fetch: self.cache.lock()
FetchLock(t) ==
    /\ pc[t] = "f_lock"
    /\ mapLock = NoTask
    /\ mapLock' = t
    /\ pc' = [pc EXCEPT ![t] = "f_locked"]
    /\ UNCHANGED <<ver, inMap, slot, writer, readers, queue, fout, res, todo, solc,
                   disk, manifest, fetchCount, fetches, started, loads,
                   okResults, dropSeen, fsVars,
                   refreshVars, s3Vars>>

\* fetch: Arc::clone(cache.entry(ver.clone()).or_default()), end of the block
FetchInsert(t) ==
    LET v == ver[t] IN
    /\ pc[t] = "f_locked"
    /\ inMap' = inMap \cup {v}
    /\ slot' = [slot EXCEPT ![v] = OrDefault(v)]
    /\ mapLock' = FetchBlockEnd(t)
    /\ pc' = [pc EXCEPT ![t] = "f_write"]
    /\ UNCHANGED <<ver, writer, readers, queue, fout, res, todo, solc, disk,
                   manifest, fetchCount, fetches, started, loads, okResults,
                   dropSeen, fsVars,
                   refreshVars, s3Vars>>

\* fetch: lock.write().await
FetchWrite(t) ==
    /\ pc[t] = "f_write"
    /\ AcquireWrite(t, ver[t], "f_held", "f_wait")
    /\ UNCHANGED <<ver, mapLock, inMap, slot, fout, res, todo, solc, disk, manifest,
                   fetchCount, fetches, started, loads, okResults, dropSeen, fsVars,
                   refreshVars, s3Vars>>

\* fetch: match entry.as_ref(): Some(file) returns it, None calls the fetcher
FetchCheck(t) ==
    LET v == ver[t] IN
    /\ pc[t] = "f_held"
    /\ IF EntryAsRef(v) # None
       THEN /\ Unlock(t, v, "ret")
            /\ res' = [res EXCEPT ![t] = Ok(EntryAsRef(v))]
            /\ okResults' = [okResults EXCEPT ![v] = @ \cup {EntryAsRef(v)}]
            /\ mapLock' = ScopeExit(t)
            /\ UNCHANGED <<fetchCount, fetches>>
       ELSE /\ pc' = [pc EXCEPT ![t] = "fetching"]
            /\ fetchCount' = [fetchCount EXCEPT ![v] = @ + 1]
            /\ fetches' = [fetches EXCEPT ![t] = @ + 1]
            /\ UNCHANGED <<writer, readers, queue, res, okResults, mapLock>>
    /\ UNCHANGED <<ver, inMap, slot, fout, todo, solc, disk, manifest, started,
                   loads, dropSeen, fsVars,
                   refreshVars, s3Vars>>

\* Fetcher::fetch comes back with a path
FetcherOk(t) ==
    /\ pc[t] = "fetching"
    /\ fout' = [fout EXCEPT ![t] = Ok(FetchedPath(ver[t]))]
    /\ pc' = [pc EXCEPT ![t] = "fetched"]
    /\ UNCHANGED <<ver, mapLock, inMap, slot, writer, readers, queue, res,
                   todo, solc, disk, manifest, fetchCount, fetches, started, loads,
                   okResults, dropSeen, fsVars,
                   refreshVars, s3Vars>>

\* Fetcher::fetch comes back with a FetchError
FetcherErr(t, e) ==
    /\ pc[t] = "fetching"
    /\ fout' = [fout EXCEPT ![t] = Err(e)]
    /\ pc' = [pc EXCEPT ![t] = "fetched"]
    /\ UNCHANGED <<ver, mapLock, inMap, slot, writer, readers, queue, res,
                   todo, solc, disk, manifest, fetchCount, fetches, started, loads,
                   okResults, dropSeen, fsVars,
                   refreshVars, s3Vars>>

\* a mutation of KeysAfterFetch: a fetch that failed takes its entry out of
\* the map
ErasedOnError(t) ==
    IF fout[t].tag = "err" THEN inMap \ {ver[t]} ELSE inMap

\* fetch leaves the map as it is, whether the fetcher call failed or not
KeysAfterFetch(t) == inMap

\* fetch: `let file = fetcher.fetch(ver).await?; *entry = Some(file.clone())`
FetchDone(t) ==
    LET v == ver[t] IN
    /\ pc[t] = "fetched"
    /\ IF fout[t].tag = "ok"
       THEN /\ slot' = [slot EXCEPT ![v] = fout[t].val]
            /\ res' = [res EXCEPT ![t] = Ok(fout[t].val)]
            /\ okResults' = [okResults EXCEPT ![v] = @ \cup {fout[t].val}]
            /\ Unlock(t, v, "ret")
       ELSE /\ res' = [res EXCEPT ![t] = Propagated(fout[t])]
            /\ IF FetchErrPc = "ret"
               THEN Unlock(t, v, "ret")
               ELSE /\ pc' = [pc EXCEPT ![t] = FetchErrPc]
                    /\ UNCHANGED <<writer, readers, queue>>
            /\ UNCHANGED <<slot, okResults>>
    /\ mapLock' = ScopeExit(t)
    /\ inMap' = KeysAfterFetch(t)
    /\ UNCHANGED <<ver, fout, todo, solc, disk, manifest, fetchCount,
                   fetches, started, loads, dropSeen, fsVars,
                   refreshVars, s3Vars>>

\* the caller has the result of its call
Return(t) ==
    /\ pc[t] = "ret"
    /\ pc' = [pc EXCEPT ![t] = "idle"]
    /\ ver' = [ver EXCEPT ![t] = NoVer]
    /\ res' = [res EXCEPT ![t] = NoRes]
    /\ fout' = [fout EXCEPT ![t] = NoRes]
    /\ fetches' = [fetches EXCEPT ![t] = 0]
    /\ dropSeen' = [dropSeen EXCEPT ![t] = FALSE]
    /\ UNCHANGED <<mapLock, inMap, slot, writer, readers, queue, todo, solc, disk,
                   manifest, fetchCount, started, loads, okResults, fsVars,
                   refreshVars>>
    /\ s3' = [s3 EXCEPT ![t] = None]
    /\ vread' = vread \ {t}
    /\ UNCHANGED listing

\* the await points of get: the two lock waits and the fetcher call
Suspended(t) == pc[t] \in {"tg_wait", "f_wait", "fetching", "fetched"}

\* a mutation of Dropped: the cancelled future's guard is leaked, not dropped
Leaked(t, v) ==
    /\ pc' = [pc EXCEPT ![t] = "idle"]
    /\ UNCHANGED <<writer, readers, queue>>

\* dropping the future drops the guard it holds and its place in the queue
Dropped(t, v) == Unlock(t, v, "idle")

\* a mutation of SlotAtDrop: a fetch that had its path stores it all the same
StoredAtDrop(t) ==
    IF pc[t] = "fetched" /\ fout[t].tag = "ok"
    THEN [slot EXCEPT ![ver[t]] = fout[t].val]
    ELSE slot

\* a dropped future never reaches `*entry = Some(file.clone())` (line 62)
SlotAtDrop(t) == slot

\* the JoinHandle of a spawn_blocking task is dropped with the future: the
\* task is detached and runs on, a finished one is gone
Detached(t) ==
    {IF s.owner = t THEN [s EXCEPT !.owner = NoTask] ELSE s :
         s \in {r \in savers : r.owner # t \/ r.step \notin {"done", "failed"}}}

\* the get future of t is dropped at an await point: its guards and its
\* Fetcher::fetch future are dropped with it
Cancel(t) ==
    LET v == ver[t] IN
    /\ Suspended(t)
    /\ Dropped(t, v)
    /\ slot' = SlotAtDrop(t)
    /\ dropSeen' = [u \in Tasks |->
                      IF u = t THEN FALSE
                      ELSE IF pc[t] \in {"fetching", "fetched"}
                              /\ u \in {queue[v][i] : i \in 1..Len(queue[v])}
                           THEN TRUE ELSE dropSeen[u]]
    /\ ver' = [ver EXCEPT ![t] = NoVer]
    /\ res' = [res EXCEPT ![t] = NoRes]
    /\ fout' = [fout EXCEPT ![t] = NoRes]
    /\ fetches' = [fetches EXCEPT ![t] = 0]
    /\ mapLock' = ScopeExit(t)
    /\ savers' = Detached(t)
    /\ wx' = [wx EXCEPT ![t] = None]
    /\ UNCHANGED <<inMap, todo, solc, disk, manifest, fetchCount, started,
                   loads, okResults, mismatched, refreshVars>>
    /\ s3' = [s3 EXCEPT ![t] = None]
    /\ vread' = vread \ {t}
    /\ UNCHANGED listing

----------------------------------------------------------------------------
(* DownloadCache::load_from_dir *)

\* find_versions_in_dir: the entries of the folder whose name is a version
FindVersionsInDir == {n \in DirNames : disk[n] # NoDir /\ Parses(n)}

\* fetcher.get_hash(&version)
HasHash(v) == v \in manifest

\* a mutation of Installed: the directory is stored, not the file in it
InstalledDir(p) == <<p[1], p[2]>>

\* `*lock.write().await = Some(solc_path)`
Installed(p) == p

StartLoad(t) ==
    /\ FirstIdle(t)
    /\ Calls < MaxCalls
    /\ loads' = loads + 1
    /\ todo' = [todo EXCEPT ![t] = FindVersionsInDir]
    /\ pc' = [pc EXCEPT ![t] = "l_next"]
    /\ UNCHANGED <<ver, mapLock, inMap, slot, writer, readers, queue, fout,
                   res, solc, disk, manifest, fetchCount, fetches, started,
                   okResults, dropSeen, fsVars,
                   refreshVars, s3Vars>>

\* the loop is over: Ok(())
LoadEnd(t) ==
    /\ pc[t] = "l_next"
    /\ todo[t] = {}
    /\ res' = [res EXCEPT ![t] = Ok(<<>>)]
    /\ pc' = [pc EXCEPT ![t] = "ret"]
    /\ UNCHANGED <<ver, mapLock, inMap, slot, writer, readers, queue, fout,
                   todo, solc, disk, manifest, fetchCount, fetches, started,
                   loads, okResults, dropSeen, fsVars,
                   refreshVars, s3Vars>>

\* the next (version, solc_path) of the HashMap, in whatever order it has:
\* get_hash, std::fs::read(&solc_path)?, check_hashsum
LoadVisit(t) ==
    /\ pc[t] = "l_next"
    /\ \E n \in todo[t] :
         LET v == FromStr(n) IN
         IF HasHash(v) /\ disk[n] = NoFile
         THEN \* the `?` on the read leaves load_from_dir
              /\ res' = [res EXCEPT ![t] = Err("Io")]
              /\ pc' = [pc EXCEPT ![t] = "ret"]
              /\ todo' = [todo EXCEPT ![t] = {}]
              /\ UNCHANGED <<ver, solc>>
         ELSE IF HasHash(v) /\ CheckHashsum(disk[n], Declared(v))
         THEN /\ ver' = [ver EXCEPT ![t] = v]
              /\ solc' = [solc EXCEPT ![t] = SolcPath(n)]
              /\ pc' = [pc EXCEPT ![t] = "l_lock"]
              /\ todo' = [todo EXCEPT ![t] = @ \ {n}]
              /\ UNCHANGED res
         ELSE \* a warning is logged
              /\ todo' = [todo EXCEPT ![t] = @ \ {n}]
              /\ UNCHANGED <<pc, ver, solc, res>>
    /\ UNCHANGED <<mapLock, inMap, slot, writer, readers, queue, fout, disk,
                   manifest, fetchCount, fetches, started, loads, okResults,
                   dropSeen, fsVars,
                   refreshVars, s3Vars>>

\* a mutation of LoadBlockEnd: the guard outlives the block
LoadGuardKept(t) == t

\* load_from_dir: `cache` is dropped at the end of the block (line 82)
LoadBlockEnd(t) == NoTask

\* load_from_dir: self.cache.lock()
LoadLock(t) ==
    /\ pc[t] = "l_lock"
    /\ mapLock = NoTask
    /\ mapLock' = t
    /\ pc' = [pc EXCEPT ![t] = "l_locked"]
    /\ UNCHANGED <<ver, inMap, slot, writer, readers, queue, fout, res, todo,
                   solc, disk, manifest, fetchCount, fetches, started, loads,
                   okResults, dropSeen, fsVars,
                   refreshVars, s3Vars>>

\* load_from_dir: Arc::clone(cache.entry(version.clone()).or_default())
LoadInsert(t) ==
    LET v == ver[t] IN
    /\ pc[t] = "l_locked"
    /\ inMap' = inMap \cup {v}
    /\ slot' = [slot EXCEPT ![v] = OrDefault(v)]
    /\ mapLock' = LoadBlockEnd(t)
    /\ pc' = [pc EXCEPT ![t] = "l_write"]
    /\ UNCHANGED <<ver, writer, readers, queue, fout, res, todo, solc, disk,
                   manifest, fetchCount, fetches, started, loads, okResults,
                   dropSeen, fsVars,
                   refreshVars, s3Vars>>

\* load_from_dir: lock.write().await
LoadWrite(t) ==
    /\ pc[t] = "l_write"
    /\ AcquireWrite(t, ver[t], "l_held", "l_wait")
    /\ UNCHANGED <<ver, mapLock, inMap, slot, fout, res, todo, solc, disk,
                   manifest, fetchCount, fetches, started, loads, okResults,
                   dropSeen, fsVars,
                   refreshVars, s3Vars>>

\* load_from_dir: the store through the write guard
LoadStore(t) ==
    /\ pc[t] = "l_held"
    /\ slot' = [slot EXCEPT ![ver[t]] = Installed(solc[t])]
    /\ pc' = [pc EXCEPT ![t] = "l_stored"]
    /\ UNCHANGED <<ver, mapLock, inMap, writer, readers, queue, fout, res,
                   todo, solc, disk, manifest, fetchCount, fetches, started,
                   loads, okResults, dropSeen, fsVars,
                   refreshVars, s3Vars>>

\* load_from_dir: the write guard is dropped at the end of the statement
LoadRelease(t) ==
    /\ pc[t] = "l_stored"
    /\ Unlock(t, ver[t], "l_next")
    /\ ver' = [ver EXCEPT ![t] = NoVer]
    /\ solc' = [solc EXCEPT ![t] = None]
    /\ UNCHANGED <<mapLock, inMap, slot, fout, res, todo, disk, manifest,
                   fetchCount, fetches, started, loads, okResults, dropSeen, fsVars,
                   refreshVars, s3Vars>>

LoadStep(t) ==
    \/ LoadEnd(t)
    \/ LoadVisit(t)
    \/ LoadLock(t)
    \/ LoadInsert(t)
    \/ LoadWrite(t)
    \/ LoadStore(t)
    \/ LoadRelease(t)

----------------------------------------------------------------------------
(* write_executable (src/src/compiler/fetcher.rs): the bytes are hashed and
   saved by two spawn_blocking tasks, joined by the caller.  A save task is a
   record [owner, v, data, step, fd]: the task awaiting it (NoTask once its
   JoinHandle is dropped), the version, the bytes, the next thing it does and
   whether the file it has open is still the one at <folder>/<version>/solc.
   Save tasks nobody awaits that cannot be told apart are one element. *)

\* a solc file that is created or truncated and not written to the end
Empty == <<"empty", 0>>

\* the bytes a download can deliver for v
Downloads(v) == {Solc(v), Junk}

\* the hashes a fetcher can expect for v: the one of the genuine binary, and
\* the one of whatever the source holds in its place
Expected(v) == {Declared(v), Sha256(Junk)}

\* the cache's variables but the folder
cacheNoDisk == <<pc, ver, mapLock, inMap, slot, writer, readers, queue, fout,
                 res, todo, solc, manifest, fetchCount, fetches, started,
                 loads, okResults, dropSeen>>

\* a mutation of SavePath: every version is saved into the folder of one
SharedPath(s) == Format(1)

\* path.join(ver.to_string()), with "solc" joined: the folder of the version
SavePath(s) == Format(s.v)

\* spawn_blocking(move || { create_dir_all; remove_file; create; copy })
SaveTask(t, v, data) ==
    [owner |-> t, v |-> v, data |-> data, step |-> "remove", fd |-> "none"]

\* a finished task is kept for the join of its owner, and gone without one
Finished(s, step) ==
    IF s.owner = NoTask THEN savers \ {s}
    ELSE (savers \ {s}) \cup {[s EXCEPT !.step = step]}

\* the download is there: write_executable spawns the save and the check
Downloaded(t, data, sha) ==
    /\ pc[t] = "fetching"
    /\ wx[t] = None
    /\ wx' = [wx EXCEPT ![t] = [data |-> data, sha |-> sha]]
    /\ savers' = savers \cup {SaveTask(t, ver[t], data)}
    /\ UNCHANGED <<cacheVars, mismatched, refreshVars, s3Vars>>

\* the download fails: no write_executable
DownloadErr(t, e) ==
    /\ wx[t] = None
    /\ FetcherErr(t, e)

\* create_dir_all(&folder)?; remove_file(file), NotFound let through: every
\* descriptor open on the removed file is left with an unlinked file
SaverRemove(s) ==
    /\ s.step = "remove"
    /\ disk' = [disk EXCEPT ![SavePath(s)] = NoFile]
    /\ savers' = {IF r = s THEN [r EXCEPT !.step = "create"]
                  ELSE IF r.v = s.v /\ r.fd = "linked"
                       THEN [r EXCEPT !.fd = "unlinked"]
                       ELSE r : r \in savers}
    /\ UNCHANGED <<cacheNoDisk, wx, mismatched, refreshVars, s3Vars>>

\* create_dir_all or remove_file fails: the `?` ends the task with File
SaverFail(s) ==
    /\ s.step = "remove"
    /\ savers' = Finished(s, "failed")
    /\ UNCHANGED <<cacheVars, wx, mismatched, refreshVars, s3Vars>>

\* create_executable: create(true).write(true).truncate(true).open(path)
SaverCreate(s) ==
    /\ s.step = "create"
    /\ disk' = [disk EXCEPT ![SavePath(s)] = Empty]
    /\ savers' = (savers \ {s}) \cup {[s EXCEPT !.step = "copy", !.fd = "linked"]}
    /\ UNCHANGED <<cacheNoDisk, wx, mismatched, refreshVars, s3Vars>>

\* std::io::copy to the end: into the file at the path if the descriptor is
\* still that file, into a file without a name otherwise
SaverCopy(s) ==
    /\ s.step = "copy"
    /\ disk' = IF s.fd = "linked" THEN [disk EXCEPT ![SavePath(s)] = s.data]
               ELSE disk
    /\ savers' = Finished(s, "done")
    /\ UNCHANGED <<cacheNoDisk, wx, mismatched, refreshVars, s3Vars>>

\* `check_result??; save_result??; Ok(file)`
JoinResult(v, data, sha, step) ==
    IF ~CheckHashsum(data, sha) THEN Err("HashMismatch")
    ELSE IF step = "failed" THEN Err("File")
    ELSE Ok(FetchedPath(v))

\* futures::join!(check_result, save_result): both tasks are over
Join(t) ==
    /\ pc[t] = "fetching"
    /\ wx[t] # None
    /\ \E s \in savers :
           /\ s.owner = t
           /\ s.step \in {"done", "failed"}
           /\ fout' = [fout EXCEPT
                          ![t] = JoinResult(ver[t], wx[t].data, wx[t].sha, s.step)]
           /\ savers' = savers \ {s}
    /\ mismatched' = IF CheckHashsum(wx[t].data, wx[t].sha) THEN mismatched
                     ELSE mismatched \cup {ver[t]}
    /\ wx' = [wx EXCEPT ![t] = None]
    /\ pc' = [pc EXCEPT ![t] = "fetched"]
    /\ UNCHANGED <<ver, mapLock, inMap, slot, writer, readers, queue, res, todo,
                   solc, disk, manifest, fetchCount, fetches, started, loads,
                   okResults, dropSeen, refreshVars, s3Vars>>

\* a step of a blocking task
SaverStep(s) ==
    \/ SaverRemove(s)
    \/ SaverFail(s)
    \/ SaverCreate(s)
    \/ SaverCopy(s)

----------------------------------------------------------------------------
(* RefreshableVersions (src/src/compiler/refreshable_versions.rs): a value
   behind a parking_lot::RwLock, replaced by the refresh job.  The value is
   the set of versions the source lists (HashSet<Version> of S3Fetcher). *)

Snapshots == SUBSET Versions

\* a mutation of NeedToUpdate: the value is stored whether it differs or not
AlwaysUpdate(new, old) == TRUE

\* `new != *old` under the read guard
NeedToUpdate(new, old) == new # old

\* a mutation of Swapped: the fetched versions are added to the old ones
Merged(new, old) == old \cup new

\* `*old = new` under the write guard
Swapped(new, old) == new

\* a mutation of ErrPc: the error ends the job
JobEnds == "off"

\* the Err arm only logs: the job waits for its next tick
ErrPc == "sleep"

\* a mutation of WriteGranted: the write guard is given out beside read guards
WriteShared == wguard = "free"

\* write(): the write guard is given out when no guard at all is held
WriteGranted == rguards = {} /\ vread = {} /\ wguard = "free"

\* the schedule fires: the job's closure runs once more
Tick ==
    /\ rpc = "sleep"
    /\ Len(outcomes) < MaxTicks
    /\ rpc' = "fetch"
    /\ UNCHANGED <<cacheVars, fsVars, s3Vars, wguard, snap, upstream, rnew, rguards, seen,
                   wlocks, outcomes, lastOk>>

\* the source lists other versions from now on
UpstreamChange(x) ==
    /\ x # upstream
    /\ upstream' = x
    /\ UNCHANGED <<cacheVars, fsVars, s3Vars, wguard, snap, rpc, rnew, rguards, seen, wlocks,
                   outcomes, lastOk>>

\* fetcher.fetch_versions().await is Ok(fetched_versions)
FetchVersionsOk ==
    /\ rpc = "fetch"
    /\ rnew' = upstream
    /\ lastOk' = upstream
    /\ rpc' = "compare"
    /\ UNCHANGED <<cacheVars, fsVars, s3Vars, wguard, snap, upstream, rguards, seen, wlocks,
                   outcomes>>

\* fetcher.fetch_versions().await is Err(err): log::error!
FetchVersionsErr ==
    /\ rpc = "fetch"
    /\ outcomes' = Append(outcomes, "err")
    /\ rpc' = ErrPc
    /\ UNCHANGED <<cacheVars, fsVars, s3Vars, wguard, snap, upstream, rnew, rguards, seen,
                   wlocks, lastOk>>

\* update_versions: need_to_update, computed under a read guard
Compare ==
    /\ rpc = "compare"
    /\ wguard = "free"
    /\ IF NeedToUpdate(rnew, snap)
       THEN /\ rpc' = "swap"
            /\ UNCHANGED <<rnew, outcomes>>
       ELSE /\ rpc' = "sleep"
            /\ rnew' = NoList
            /\ outcomes' = Append(outcomes, "same")
    /\ UNCHANGED <<cacheVars, fsVars, s3Vars, wguard, snap, upstream, rguards, seen, wlocks,
                   lastOk>>

\* update_versions: self.write() waits for the read guards to be dropped,
\* the value is overwritten, the write guard is dropped
Swap ==
    /\ rpc = "swap"
    /\ WriteGranted
    /\ wlocks' = wlocks + 1
    /\ snap' = Swapped(rnew, snap)
    /\ rnew' = NoList
    /\ outcomes' = Append(outcomes, "swap")
    /\ rpc' = "sleep"
    /\ UNCHANGED <<cacheVars, fsVars, s3Vars, wguard, upstream, rguards, seen, lastOk>>

\* read(): a read guard, granted when no write guard is held
ReadLock(r) ==
    /\ r \notin rguards
    /\ wguard = "free"
    /\ rguards' = rguards \cup {r}
    /\ UNCHANGED <<cacheVars, fsVars, s3Vars, wguard, snap, upstream, rpc, rnew, seen, wlocks,
                   outcomes, lastOk>>

\* the reader copies the value out and drops its guard
ReadUnlock(r) ==
    /\ r \in rguards
    /\ seen' = [seen EXCEPT ![r] = snap]
    /\ rguards' = rguards \ {r}
    /\ UNCHANGED <<cacheVars, fsVars, s3Vars, wguard, snap, upstream, rpc, rnew, wlocks,
                   outcomes, lastOk>>

\* a writer other than the job: write() gives it the write guard
WriterLock ==
    /\ WriteGranted
    /\ wguard' = "writer"
    /\ UNCHANGED <<cacheVars, fsVars, s3Vars, snap, upstream, rpc, rnew,
                   rguards, seen, wlocks, outcomes, lastOk>>

\* the writer assigns through its guard
WriterPut(x) ==
    /\ wguard = "writer"
    /\ x # snap
    /\ snap' = x
    /\ UNCHANGED <<cacheVars, fsVars, s3Vars, wguard, upstream, rpc, rnew,
                   rguards, seen, wlocks, outcomes, lastOk>>

\* the writer drops its guard
WriterUnlock ==
    /\ wguard = "writer"
    /\ wguard' = "free"
    /\ UNCHANGED <<cacheVars, fsVars, s3Vars, snap, upstream, rpc, rnew,
                   rguards, seen, wlocks, outcomes, lastOk>>

----------------------------------------------------------------------------
(* S3Fetcher (src/src/compiler/s3_fetcher.rs): fetch(v) looks v up in the
   version list, spawns one GET for <v>/solc and one for <v>/sha256.hash,
   joins them and hands the bytes and the hash to save_executable.  s3[t] is
   None outside fetch_file and a record [data, hash] of the two GETs inside;
   a GET is a record [st, code, body]. *)

\* a GET that has not come back
Pending == [st |-> "pending", code |-> 0, body |-> None]

\* bucket.get_object(..) is Err: there is no response
NoResponse == [st |-> "err", code |-> 0, body |-> None]

\* bucket.get_object(..) is Ok((body, status_code))
Response(code, body) == [st |-> "ok", code |-> code, body |-> body]

\* the body of a sha256.hash object that is not 32 bytes long
ShortHash == <<"short", 0>>

\* what the source can answer to the GET of <v>/solc
SolcObjects(v) ==
    {NoResponse, Response(404, Empty), Response(200, Solc(v)),
     Response(200, Junk)}

\* what the source can answer to the GET of <v>/sha256.hash
HashObjects(v) ==
    {NoResponse, Response(404, Empty), Response(200, Declared(v)),
     Response(200, ShortHash)}

\* H256::from_slice asserts that the slice is 32 bytes long: a digest is
Is32Bytes(h) == h[1] = "sha256"

\* the task has panicked: its call has no return value
Panic == [tag |-> "panic", val |-> <<>>]

\* a mutation of Listed: the version list is not looked at
Unlisted(t) == TRUE

\* versions.contains(ver) under the read guard of the list
Listed(t) == ver[t] \in snap

\* a mutation of BlockEnd: the read guard outlives the block of the check
GuardKept(t) == vread

\* fetch_file: the block of the membership check ends, `versions` is dropped
BlockEnd(t) == vread \ {t}

\* fetch_file: `let versions = self.versions.0.read()`, which waits while the
\* refresh job holds the write guard
VersionsRead(t) ==
    /\ pc[t] = "fetching"
    /\ wx[t] = None
    /\ s3[t] = None
    /\ t \notin vread
    /\ wguard = "free"
    /\ vread' = vread \cup {t}
    /\ UNCHANGED <<cacheVars, fsVars, refreshVars, s3, listing>>

\* fetch_file: the version is not in the list, return Err(NotFound(ver))
S3NotFound(t) ==
    /\ pc[t] = "fetching"
    /\ wx[t] = None
    /\ s3[t] = None
    /\ t \in vread
    /\ ~Listed(t)
    /\ fout' = [fout EXCEPT ![t] = Err("NotFound")]
    /\ pc' = [pc EXCEPT ![t] = "fetched"]
    /\ vread' = BlockEnd(t)
    /\ UNCHANGED <<ver, mapLock, inMap, slot, writer, readers, queue, res,
                   todo, solc, disk, manifest, fetchCount, fetches, started, loads,
                   okResults, dropSeen, fsVars, refreshVars, s3, listing>>

\* fetch_file: the version is in the list, spawn_fetch_s3 for solc and for
\* sha256.hash
S3Spawn(t) ==
    /\ pc[t] = "fetching"
    /\ wx[t] = None
    /\ s3[t] = None
    /\ t \in vread
    /\ Listed(t)
    /\ s3' = [s3 EXCEPT ![t] = [data |-> Pending, hash |-> Pending]]
    /\ vread' = BlockEnd(t)
    /\ UNCHANGED <<cacheVars, fsVars, refreshVars, listing>>

\* futures::join!(data, hash): the two tasks of spawn_fetch_s3 have ended,
\* each with what bucket.get_object(path).await gave it
GetObjects(t, d, h) ==
    /\ pc[t] = "fetching"
    /\ wx[t] = None
    /\ s3[t] = [data |-> Pending, hash |-> Pending]
    /\ s3' = [s3 EXCEPT ![t] = [data |-> d, hash |-> h]]
    /\ UNCHANGED <<cacheVars, fsVars, refreshVars, listing, vread>>

\* fetch_file is past its join
Joined(t) ==
    /\ s3[t] # None
    /\ s3[t].data # Pending
    /\ s3[t].hash # Pending

\* a mutation of FetchFile: a binary that came with 200 is taken with the
\* hash of its own bytes, whatever the GET of sha256.hash has answered
Unverified(g) ==
    IF g.data.st = "ok" /\ g.data.code = 200
    THEN Ok(<<g.data.body, Sha256(g.data.body)>>)
    ELSE Err("Fetch")

\* fetch_file after the join: `hash??`, its status code, `data??`, its
\* status code, H256::from_slice(&hash)
FetchFile(g) ==
    IF g.hash.st = "err" THEN Err("Fetch")
    ELSE IF g.hash.code # 200 THEN Err("Fetch")
    ELSE IF g.data.st = "err" THEN Err("Fetch")
    ELSE IF g.data.code # 200 THEN Err("Fetch")
    ELSE IF ~Is32Bytes(g.hash.body) THEN Panic
    ELSE Ok(<<g.data.body, g.hash.body>>)

\* fetch_file returns an error and `?` hands it on
S3Fail(t) ==
    /\ Joined(t)
    /\ FetchFile(s3[t]).tag = "err"
    /\ DownloadErr(t, FetchFile(s3[t]).val[1])

\* H256::from_slice panics: the task unwinds, dropping the guards of get
S3Panic(t) ==
    /\ pc[t] = "fetching"
    /\ wx[t] = None
    /\ Joined(t)
    /\ FetchFile(s3[t]).tag = "panic"
    /\ Unlock(t, ver[t], "aborted")
    /\ res' = [res EXCEPT ![t] = Panic]
    /\ UNCHANGED <<ver, mapLock, inMap, slot, fout, todo, solc, disk, manifest,
                   fetchCount, fetches, started, loads, okResults, dropSeen,
                   fsVars, refreshVars, s3Vars>>

\* save_executable(data, hash, &self.folder, ver)
SaveExecutable(t) ==
    /\ Joined(t)
    /\ FetchFile(s3[t]).tag = "ok"
    /\ Downloaded(t, FetchFile(s3[t]).val[1], FetchFile(s3[t]).val[2])

\* a common prefix as a listing with the delimiter "/" gives it: the name of
\* the folder and the delimiter
Slashed(name) == <<name[1], name[2], "/">>

\* the common prefixes a bucket can list
Prefixes == DirNames \cup {Slashed(n) : n \in DirNames}

\* fetch_versions: Version::from_str(&x.prefix).ok() over the common prefixes
FetchedVersions(l) == {FromStr(q) : q \in {p \in l : Parses(p)}}

\* the bucket has other folders from now on
Relist(l) ==
    /\ l # listing
    /\ listing' = l
    /\ UNCHANGED <<cacheVars, fsVars, refreshVars, s3, vread>>

\* the refresh job: fetch_versions is Ok(fetched_versions)
ListVersionsOk ==
    /\ rpc = "fetch"
    /\ rnew' = FetchedVersions(listing)
    /\ lastOk' = FetchedVersions(listing)
    /\ rpc' = "compare"
    /\ UNCHANGED <<cacheVars, fsVars, s3Vars, wguard, snap, upstream, rguards,
                   seen, wlocks, outcomes>>

\* S3Fetcher::fetch of a version of the list comes back with a path
ListedOk(t) ==
    /\ pc[t] = "fetching"
    /\ s3[t] = None
    /\ t \in vread
    /\ Listed(t)
    /\ fout' = [fout EXCEPT ![t] = Ok(FetchedPath(ver[t]))]
    /\ pc' = [pc EXCEPT ![t] = "fetched"]
    /\ vread' = BlockEnd(t)
    /\ UNCHANGED <<ver, mapLock, inMap, slot, writer, readers, queue, res,
                   todo, solc, disk, manifest, fetchCount, fetches, started, loads,
                   okResults, dropSeen, fsVars, refreshVars, s3, listing>>

----------------------------------------------------------------------------
(* Specifications *)

InitCache ==
    /\ pc = [t \in Tasks |-> "idle"]
    /\ ver = [t \in Tasks |-> NoVer]
    /\ mapLock = NoTask
    /\ inMap = {}
    /\ slot = [v \in Versions |-> None]
    /\ writer = [v \in Versions |-> NoTask]
    /\ readers = [v \in Versions |-> {}]
    /\ queue = [v \in Versions |-> <<>>]
    /\ fout = [t \in Tasks |-> NoRes]
    /\ res = [t \in Tasks |-> NoRes]
    /\ todo = [t \in Tasks |-> {}]
    /\ solc = [t \in Tasks |-> None]
    /\ fetchCount = [v \in Versions |-> 0]
    /\ fetches = [t \in Tasks |-> 0]
    /\ started = [v \in Versions |-> 0]
    /\ loads = 0
    /\ okResults = [v \in Versions |-> {}]
    /\ dropSeen = [t \in Tasks |-> FALSE]

\* no write_executable is running
NoWrites ==
    /\ savers = {}
    /\ wx = [t \in Tasks |-> None]
    /\ mismatched = {}

\* no S3Fetcher::fetch_file is running, and the bucket is empty
NoGets ==
    /\ s3 = [t \in Tasks |-> None]
    /\ listing = {}
    /\ vread = {}

\* no refresh job: the version list stays as it is
NoRefresh ==
    /\ snap = {}
    /\ upstream = {}
    /\ rpc = "off"
    /\ rnew = NoList
    /\ rguards = {}
    /\ seen = [r \in Readers |-> NoList]
    /\ wlocks = 0
    /\ outcomes = <<>>
    /\ lastOk = {}
    /\ wguard = "free"

\* an empty compiler folder and an empty version list
InitEmpty ==
    /\ InitCache
    /\ NoWrites
    /\ NoGets
    /\ NoRefresh
    /\ disk = [n \in DirNames |-> NoDir]
    /\ manifest = {}

\* the steps of get that are the cache's own
GetStep(t) ==
    \/ TryGetLock(t)
    \/ TryGetLookup(t)
    \/ TryGetRead(t)
    \/ TryGetPeek(t)
    \/ FetchLock(t)
    \/ FetchInsert(t)
    \/ FetchWrite(t)
    \/ FetchCheck(t)
    \/ FetchDone(t)
    \/ Return(t)

\* gets against a fetcher whose fetch always succeeds
NextOk ==
    \E t \in Tasks :
        \/ \E v \in Versions : StartGet(t, v)
        \/ GetStep(t)
        \/ FetcherOk(t)

SpecOk == InitEmpty /\ [][NextOk]_vars

\* gets against a fetcher whose fetch succeeds or fails
NextGet ==
    \E t \in Tasks :
        \/ \E v \in Versions : StartGet(t, v)
        \/ GetStep(t)
        \/ FetcherOk(t)
        \/ \E e \in ErrKinds : FetcherErr(t, e)

SpecGet == InitEmpty /\ [][NextGet]_vars

\* the compiler folders a run starts from: one binary genuine and one
\* tampered with beside a directory that is no version; one directory
\* without its solc file beside a genuine binary
Folders ==
    { (Format(1) :> Solc(1)) @@ (Format(2) :> Junk) @@ (Garbage :> Junk),
      (Format(1) :> NoFile) @@ (Format(2) :> Solc(2)) @@ (Garbage :> NoDir) }

InitDisk ==
    /\ InitCache
    /\ NoWrites
    /\ NoGets
    /\ NoRefresh
    /\ disk \in Folders
    /\ manifest = Versions

\* get, load_from_dir and cancellation, against a fetcher that may fail
Next ==
    \E t \in Tasks :
        \/ \E v \in Versions : StartGet(t, v)
        \/ StartLoad(t)
        \/ GetStep(t)
        \/ LoadStep(t)
        \/ FetcherOk(t)
        \/ \E e \in ErrKinds : FetcherErr(t, e)
        \/ Cancel(t)

Spec == InitDisk /\ [][Next]_vars

\* the version whose download never comes back
BlockedVer == 1

FetcherOkFree(t) == ver[t] # BlockedVer /\ FetcherOk(t)
FetcherErrFree(t, e) == ver[t] # BlockedVer /\ FetcherErr(t, e)

\* gets while Fetcher::fetch(BlockedVer) is blocked for good
NextBlocked ==
    \E t \in Tasks :
        \/ \E v \in Versions : StartGet(t, v)
        \/ GetStep(t)
        \/ FetcherOkFree(t)
        \/ \E e \in ErrKinds : FetcherErrFree(t, e)

\* what the runtime owes a task: a task that can step does step, and a
\* download that is not blocked comes back
Progress(t) ==
    GetStep(t) \/ FetcherOkFree(t) \/ \E e \in ErrKinds : FetcherErrFree(t, e)

SpecBlocked ==
    InitEmpty /\ [][NextBlocked]_vars /\ \A t \in Tasks : WF_vars(Progress(t))

\* the error of a failing fetch where its kind plays no part
FetchFailure == {"Fetch"}

\* gets that can be cancelled, against a fetcher whose fetch succeeds or fails
NextCancel ==
    \E t \in Tasks :
        \/ \E v \in Versions : StartGet(t, v)
        \/ GetStep(t)
        \/ FetcherOk(t)
        \/ \E e \in FetchFailure : FetcherErr(t, e)
        \/ Cancel(t)

\* what the runtime owes a task whose get is not dropped: it steps when it
\* can, and the fetcher call it makes returns
Runs(t) ==
    GetStep(t) \/ FetcherOk(t) \/ \E e \in FetchFailure : FetcherErr(t, e)

SpecCancel ==
    InitEmpty /\ [][NextCancel]_vars /\ \A t \in Tasks : WF_vars(Runs(t))

\* get, load_from_dir and cancellation, against a fetcher whose fetch
\* always succeeds: a fetcher call that stores no path was dropped
NextDrop ==
    \E t \in Tasks :
        \/ \E v \in Versions : StartGet(t, v)
        \/ StartLoad(t)
        \/ GetStep(t)
        \/ LoadStep(t)
        \/ FetcherOk(t)
        \/ Cancel(t)

SpecDrop == InitDisk /\ [][NextDrop]_vars

\* gets that can be cancelled, against a fetcher that downloads and then
\* runs write_executable
NextFs ==
    \/ \E t \in Tasks :
           \/ \E v \in Versions : StartGet(t, v)
           \/ GetStep(t)
           \/ \E data \in Downloads(ver[t]), sha \in Expected(ver[t]) :
                  Downloaded(t, data, sha)
           \/ \E e \in {"NotFound", "Fetch"} : DownloadErr(t, e)
           \/ Join(t)
           \/ Cancel(t)
    \/ \E s \in savers : SaverStep(s)

SpecFs == InitEmpty /\ [][NextFs]_vars

\* every compiler folder over the directory names: a version directory is
\* missing, has no solc file, or has one that is genuine or not; the
\* directory that is no version is missing or there
AllFolders ==
    {f \in [DirNames -> {NoDir, NoFile, Junk} \cup {Solc(v) : v \in Versions}] :
         /\ \A v \in Versions : f[Format(v)] \in {NoDir, NoFile, Junk, Solc(v)}
         /\ f[Garbage] \in {NoDir, Junk}}

InitLoad ==
    /\ InitCache
    /\ NoWrites
    /\ NoGets
    /\ NoRefresh
    /\ disk \in AllFolders
    /\ manifest \in SUBSET Versions

\* load_from_dir has run and returned
LoadOver ==
    /\ loads = 1
    /\ \A t \in Tasks : pc[t] \notin {"l_next", "l_lock", "l_locked", "l_write",
                                       "l_wait", "l_held", "l_stored"}

\* the reconciliation pass at startup
FirstLoad(t) == Calls = 0 /\ StartLoad(t)

\* a get after the pass
LaterGet(t, v) == LoadOver /\ StartGet(t, v)

\* load_from_dir on a new cache, then gets against a fetcher that succeeds
NextLoad ==
    \E t \in Tasks :
        \/ FirstLoad(t)
        \/ LoadStep(t)
        \/ \E v \in Versions : LaterGet(t, v)
        \/ GetStep(t)
        \/ FetcherOk(t)

SpecLoad == InitLoad /\ [][NextLoad]_vars

\* RefreshableVersions::new: the snapshot is what the source listed then
InitRefresh ==
    /\ InitCache
    /\ NoWrites
    /\ NoGets
    /\ disk = [n \in DirNames |-> NoDir]
    /\ manifest = {}
    /\ snap \in Snapshots
    /\ upstream = snap
    /\ lastOk = snap
    /\ rpc = "sleep"
    /\ rnew = NoList
    /\ rguards = {}
    /\ seen = [r \in Readers |-> NoList]
    /\ wlocks = 0
    /\ outcomes = <<>>
    /\ wguard = "free"

\* the refresh job, the source and the readers of the snapshot
NextRefresh ==
    \/ Tick
    \/ \E x \in Snapshots : UpstreamChange(x)
    \/ FetchVersionsOk
    \/ FetchVersionsErr
    \/ Compare
    \/ Swap
    \/ \E r \in Readers : ReadLock(r)
    \/ \E r \in Readers : ReadUnlock(r)

SpecRefresh == InitRefresh /\ [][NextRefresh]_vars

\* S3Fetcher::new: the version list is what the bucket listed, no refresh
InitS3 ==
    /\ InitCache
    /\ NoWrites
    /\ NoGets
    /\ disk = [n \in DirNames |-> NoDir]
    /\ manifest = {}
    /\ snap \in Snapshots
    /\ upstream = snap
    /\ lastOk = snap
    /\ rpc = "off"
    /\ rnew = NoList
    /\ rguards = {}
    /\ seen = [r \in Readers |-> NoList]
    /\ wlocks = 0
    /\ outcomes = <<>>
    /\ wguard = "free"

\* a get of a behaviour of few calls
FewGets(t, v) == Calls < MaxGets /\ StartGet(t, v)

\* gets against an S3Fetcher
NextS3 ==
    \/ \E t \in Tasks :
           \/ \E v \in Versions : FewGets(t, v)
           \/ GetStep(t)
           \/ VersionsRead(t)
           \/ S3NotFound(t)
           \/ S3Spawn(t)
           \/ \E d \in SolcObjects(ver[t]), h \in HashObjects(ver[t]) :
                  GetObjects(t, d, h)
           \/ S3Fail(t)
           \/ S3Panic(t)
           \/ SaveExecutable(t)
           \/ Join(t)
    \/ \E s \in savers : SaverStep(s)

SpecS3 == InitS3 /\ [][NextS3]_vars

\* S3Fetcher::new: the version list is what fetch_versions makes of the
\* listing of the bucket
InitList ==
    /\ InitCache
    /\ NoWrites
    /\ s3 = [t \in Tasks |-> None]
    /\ vread = {}
    /\ disk = [n \in DirNames |-> NoDir]
    /\ manifest = {}
    /\ listing \in SUBSET Prefixes
    /\ snap = FetchedVersions(listing)
    /\ lastOk = snap
    /\ upstream = {}
    /\ rpc = "sleep"
    /\ rnew = NoList
    /\ rguards = {}
    /\ seen = [r \in Readers |-> NoList]
    /\ wlocks = 0
    /\ outcomes = <<>>
    /\ wguard = "free"

\* the bucket and the refresh job of the S3Fetcher
NextList ==
    \/ \E l \in SUBSET Prefixes : Relist(l)
    \/ Tick
    \/ ListVersionsOk
    \/ FetchVersionsErr
    \/ Compare
    \/ Swap

SpecList == InitList /\ [][NextList]_vars

\* the source drops a version
Delist(v) == v \in upstream /\ UpstreamChange(upstream \ {v})

\* gets against an S3Fetcher whose version list is refreshed: a version of
\* the list is fetched, another one is NotFound
NextStale ==
    \/ \E t \in Tasks :
           \/ \E v \in Versions : FewGets(t, v)
           \/ GetStep(t)
           \/ VersionsRead(t)
           \/ ListedOk(t)
           \/ S3NotFound(t)
    \/ Tick
    \/ \E v \in Versions : Delist(v)
    \/ FetchVersionsOk
    \/ Compare
    \/ Swap

SpecStale == InitRefresh /\ [][NextStale]_vars

\* one step of a download that is past the membership check of fetch_file:
\* the two GETs, the verdict on what they gave, the save task, the join
DownloadStep(t) ==
    \/ \E d \in SolcObjects(ver[t]), h \in HashObjects(ver[t]) :
           GetObjects(t, d, h)
    \/ S3Fail(t)
    \/ S3Panic(t)
    \/ SaveExecutable(t)
    \/ Join(t)
    \/ \E s \in savers : s.owner = t /\ SaverStep(s)

\* the tasks that call get in the specification of the downloads
Downloaders == {1, 2}

\* downloads of the S3Fetcher through the cache, while the refresh job of
\* its version list runs and the bucket drops versions
NextDownload ==
    \/ \E t \in Downloaders :
           \/ \E v \in Versions : FewGets(t, v)
           \/ GetStep(t)
           \/ VersionsRead(t)
           \/ S3NotFound(t)
           \/ S3Spawn(t)
           \/ \E h \in {NoResponse, Response(200, Declared(ver[t]))} :
                  GetObjects(t, Response(200, Solc(ver[t])), h)
           \/ S3Fail(t)
           \/ SaveExecutable(t)
           \/ Join(t)
    \/ \E s \in savers : SaverStep(s)
    \/ Tick
    \/ \E v \in Versions : Delist(v)
    \/ FetchVersionsOk
    \/ Compare
    \/ Swap

SpecDownload == InitRefresh /\ [][NextDownload]_vars

\* the refresh job, the source, the readers and a writer of the snapshot
NextWriter ==
    \/ NextRefresh
    \/ WriterLock
    \/ \E x \in Snapshots : WriterPut(x)
    \/ WriterUnlock

SpecWriter == InitRefresh /\ [][NextWriter]_vars

\* a few gets that can be cancelled, against a fetcher that downloads and
\* then runs write_executable
NextIso ==
    \/ \E t \in Tasks :
           \/ \E v \in Versions : FewGets(t, v)
           \/ GetStep(t)
           \/ \E data \in Downloads(ver[t]), sha \in Expected(ver[t]) :
                  Downloaded(t, data, sha)
           \/ \E e \in FetchFailure : DownloadErr(t, e)
           \/ Join(t)
           \/ Cancel(t)
    \/ \E s \in savers : SaverStep(s)

SpecIso == InitEmpty /\ [][NextIso]_vars

\* a load_from_dir of a behaviour of few calls
FewLoads(t) == Calls < MaxGets /\ StartLoad(t)

\* get and load_from_dir without cancellation, against a fetcher whose
\* fetch succeeds or fails
NextLive ==
    \E t \in Tasks :
        \/ \E v \in Versions : FewGets(t, v)
        \/ FewLoads(t)
        \/ GetStep(t)
        \/ LoadStep(t)
        \/ FetcherOk(t)
        \/ \E e \in FetchFailure : FetcherErr(t, e)

\* what the runtime owes a task: it steps when it can, and the fetcher call
\* it makes returns
Scheduled(t) ==
    GetStep(t) \/ LoadStep(t) \/ FetcherOk(t)
        \/ \E e \in FetchFailure : FetcherErr(t, e)

SpecLive ==
    InitDisk /\ [][NextLive]_vars /\ \A t \in Tasks : WF_vars(Scheduled(t))

----------------------------------------------------------------------------
(* Properties *)

AllIdle == \A t \in Tasks : pc[t] = "idle"

\* the tasks whose get is inside Fetcher::fetch(v)
Fetching(v) == {t \in Tasks : ver[t] = v /\ pc[t] \in {"fetching", "fetched"}}

\* the tasks whose get of v has not come to its fetcher call yet
BeforeFetch(v) ==
    {t \in Tasks : ver[t] = v /\ pc[t] \in {"tg_lock", "tg_locked", "tg_read",
                                            "tg_wait", "tg_held", "f_lock",
                                            "f_locked", "f_write", "f_wait",
                                            "f_held"}}

InGet(t) == ver[t] \in Versions /\ pc[t] \notin {"idle", "l_lock", "l_locked",
                                                 "l_write", "l_wait", "l_held",
                                                 "l_stored"}

\* C1: single-flight. With a fetcher that always succeeds and an empty cache
\* to start from, the fetcher is called at most once for a version, exactly
\* once for every version a get has returned for and, when every call has
\* returned, exactly once for every requested version; every get(v) returns
\* the path fetch(v) returned.
C1_SingleFlight ==
    \A v \in Versions :
        /\ fetchCount[v] <= 1
        /\ okResults[v] \subseteq {FetchedPath(v)}
        /\ \A t \in Tasks :
               (pc[t] = "ret" /\ ver[t] = v) =>
                   fetchCount[v] = 1 /\ res[t] = Ok(FetchedPath(v))
        /\ AllIdle => fetchCount[v] = (IF started[v] > 0 THEN 1 ELSE 0)

\* three gets over two versions have all returned
C1_Witness ==
    /\ AllIdle
    /\ started[1] = 2 /\ started[2] = 1
    /\ fetchCount[1] = 1 /\ fetchCount[2] = 1
    /\ okResults[1] # {} /\ okResults[2] # {}

\* C2: coalescing invariant. For every version at most one task is inside
\* Fetcher::fetch for a get, and that task holds the write lock of the entry
\* with no reader beside it.
C2_Coalescing ==
    \A v \in Versions :
        /\ Cardinality(Fetching(v)) <= 1
        /\ \A t \in Fetching(v) : writer[v] = t /\ readers[v] = {}

\* a get is fetching v after an earlier fetch of v failed, a third get waits
C2_Witness ==
    \E t, u, w \in Tasks :
        /\ pc[t] = "fetching" /\ pc[u] = "f_wait" /\ pc[w] = "ret"
        /\ ver[t] = ver[u] /\ ver[u] = ver[w]
        /\ res[w].tag = "err"

\* C3: non-blocking across keys. While Fetcher::fetch(BlockedVer) never
\* returns, every get of another version returns; and once a version is
\* present the fetcher is not called for it again.
C3_NonBlocking ==
    /\ \A t \in Tasks :
           (pc[t] # "idle" /\ ver[t] # BlockedVer) ~> (pc[t] = "ret")
    /\ [][\A v \in Versions :
              slot[v] # None => fetchCount'[v] = fetchCount[v]]_vars

\* a get of the other version has returned its path without a fetcher call
\* while a download of BlockedVer is stuck with a get waiting behind it
C3_Witness ==
    \E t, u, w \in Tasks :
        /\ pc[t] = "fetching" /\ ver[t] = BlockedVer
        /\ pc[u] \in {"tg_wait", "f_wait"} /\ ver[u] = BlockedVer
        /\ pc[w] = "ret" /\ ver[w] # BlockedVer
        /\ res[w].tag = "ok"

\* C4: result stability. All successful get(v) return the same path.
C4_ResultStability ==
    \A v \in Versions : Cardinality(okResults[v]) <= 1

\* a get has returned a path for a version that the fetcher was called for
\* and load_from_dir is installing
C4_Witness ==
    \E t, u \in Tasks :
        /\ pc[t] = "l_stored"
        /\ pc[u] = "ret" /\ ver[u] = ver[t] /\ res[u].tag = "ok"
        /\ fetchCount[ver[t]] = 1

\* C5: present is immutable. No step changes or empties a slot that holds a
\* path, and no step removes a key of the map.
C5_PresentImmutable ==
    [][\A v \in Versions :
           /\ slot[v] # None => slot'[v] = slot[v]
           /\ v \in inMap => v \in inMap']_vars

\* load_from_dir has stored into a slot that gets had already been given
C5_Witness ==
    \E t \in Tasks :
        /\ pc[t] = "l_stored"
        /\ okResults[ver[t]] # {}
        /\ slot[ver[t]] \in okResults[ver[t]]

\* C6: when Fetcher::fetch returns an error inside get(v), get returns that
\* very error and the slot stays empty; and a get that returns while the
\* slot is empty has called the fetcher itself.
C6_FetchErrorSurfaced ==
    [][\A t \in Tasks :
           /\ (pc[t] = "fetched" /\ fout[t].tag = "err" /\ pc'[t] = "ret") =>
                  res'[t] = fout[t] /\ slot'[ver[t]] = None
           /\ (InGet(t) /\ pc[t] # "ret" /\ pc'[t] = "ret"
                   /\ slot'[ver[t]] = None) =>
                  fetches'[t] = 1]_vars

\* two gets of one version have each called the fetcher and returned its error
C6_Witness ==
    \E t, u \in Tasks :
        /\ t # u /\ ver[t] = ver[u] /\ ver[t] \in Versions
        /\ pc[t] = "ret" /\ pc[u] = "ret"
        /\ res[t].tag = "err" /\ res[u].tag = "err"
        /\ fetchCount[ver[t]] = 2

\* C7: concurrent gets of one version, none cancelled. No two fetcher calls
\* for a version at the same time; while the slot is empty every get that
\* got as far as the fetcher has called it once and every get that returned
\* has returned an error (N gets, N calls); once the slot holds a path no
\* fetcher call is running and a get that did not call the fetcher returns
\* that path.
C7_ConcurrentGets ==
    \A v \in Versions :
        /\ Cardinality(Fetching(v)) <= 1
        /\ slot[v] = None =>
               /\ started[v] = fetchCount[v] + Cardinality(BeforeFetch(v))
               /\ \A t \in Tasks :
                      (pc[t] = "ret" /\ ver[t] = v) =>
                          res[t].tag = "err" /\ fetches[t] = 1
        /\ slot[v] # None =>
               /\ Fetching(v) = {}
               /\ \A t \in Tasks :
                      (pc[t] = "ret" /\ ver[t] = v /\ fetches[t] = 0) =>
                          res[t] = Ok(slot[v])

\* three gets of one version have each called the failing fetcher
C7_Witness ==
    /\ started[1] = 3 /\ fetchCount[1] = 3 /\ slot[1] = None
    /\ \A t \in Tasks : pc[t] = "ret" /\ res[t].tag = "err"

\* C8: no internal retry. A get calls the fetcher at most once, and a get
\* whose fetcher call failed returns an error.
C8_NoInternalRetry ==
    \A t \in Tasks :
        /\ fetches[t] <= 1
        /\ (pc[t] = "ret" /\ fout[t].tag = "err") =>
               res[t].tag = "err" /\ fetches[t] = 1

\* a get has returned the error of its one fetcher call, the slot is empty
C8_Witness ==
    \E t \in Tasks :
        /\ pc[t] = "ret" /\ fout[t].tag = "err" /\ fetches[t] = 1
        /\ slot[ver[t]] = None /\ ver[t] \in inMap

\* C9: map lock discipline. The map mutex is held only between its lock()
\* and the lookup or get-or-insert that follows it; no task holds it while
\* it asks or waits for an entry lock, holds one, or is inside the fetcher.
C9_MapLockDiscipline ==
    /\ mapLock # NoTask => pc[mapLock] \in {"tg_locked", "f_locked", "l_locked"}
    /\ \A t \in Tasks :
           pc[t] \in {"tg_read", "tg_wait", "tg_held", "f_write", "f_wait",
                      "f_held", "fetching", "fetched", "l_write", "l_wait",
                      "l_held", "l_stored"} => mapLock # t

\* load_from_dir holds the map mutex while a get is inside the fetcher and
\* another waits for an entry lock
C9_Witness ==
    \E t, u, w \in Tasks :
        /\ mapLock = t /\ pc[t] = "l_locked"
        /\ pc[u] = "fetching"
        /\ pc[w] \in {"tg_wait", "f_wait"}

\* C10: cancellation with waiters. A get that was waiting on the entry when
\* the get running Fetcher::fetch(v) was cancelled starts no fetcher call of
\* its own, and as long as it waits that fetcher call is still running.
C10_CancelKeepsFetch ==
    \A u \in Tasks :
        dropSeen[u] =>
            /\ fetches[u] = 0
            /\ pc[u] \in {"tg_wait", "f_wait"} => Fetching(ver[u]) # {}

\* the guards of the entry lock of v are all held by running calls on v
LiveHolders(v) ==
    /\ writer[v] # NoTask =>
           /\ ver[writer[v]] = v
           /\ pc[writer[v]] \in {"f_held", "fetching", "fetched", "l_held",
                                 "l_stored"}
    /\ \A r \in readers[v] : ver[r] = v /\ pc[r] = "tg_held"

\* C11: no wedged entry. Whatever gets are cancelled at their suspension
\* points, the lock of an entry is held only by calls that are still running,
\* and every get that is not itself cancelled returns (a path or an error),
\* the fetcher calls returning.
C11_NoWedgedEntry ==
    /\ [](\A v \in Versions : LiveHolders(v))
    /\ \A t \in Tasks : (pc[t] # "idle") ~> (pc[t] \in {"ret", "idle"})

\* a get that was waiting for the entry when the fetching get was cancelled
\* has returned a path, and a later get of the version has returned it too
C11_Witness ==
    \E u, w \in Tasks :
        /\ u # w /\ ver[u] = ver[w]
        /\ dropSeen[u] /\ pc[u] = "ret" /\ res[u].tag = "ok"
        /\ pc[w] = "ret" /\ res[w].tag = "ok" /\ fetches[w] = 0

\* C12: a get cancelled while its Fetcher::fetch(v) is in flight leaves the
\* slot of v empty, and a slot gets a path only from the store of a get whose
\* fetch came back with one or from the store of load_from_dir.
C12_SlotEndsEmpty ==
    [][/\ \A t \in Tasks :
              (pc[t] \in {"fetching", "fetched"} /\ pc'[t] = "idle") =>
                  slot'[ver[t]] = None
       /\ \A v \in Versions :
              slot'[v] # slot[v] =>
                  \E t \in Tasks :
                      /\ ver[t] = v
                      /\ \/ pc[t] = "fetched" /\ fout[t].tag = "ok"
                               /\ pc'[t] = "ret"
                         \/ pc[t] = "l_held" /\ pc'[t] = "l_stored"]_vars

\* the only get of version 1 called the fetcher and is gone with the slot
\* still empty: it was cancelled during the fetch
C12_Witness ==
    /\ AllIdle
    /\ started[1] = 1 /\ fetchCount[1] = 1
    /\ 1 \in inMap /\ slot[1] = None
    /\ writer[1] = NoTask /\ queue[1] = <<>>

\* the save tasks that have begun to write under <folder>/<v>/ and are not over
Writing(v) == {s \in savers : s.v = v /\ s.step \in {"create", "copy"}}

\* C13: filesystem single writer. At most one task is writing under
\* <folder>/<version>/ at a time, whatever gets are cancelled.
C13_SingleWriter ==
    \A v \in Versions : Cardinality(Writing(v)) <= 1

\* the save task the write_executable of t awaits has written to the end
SaveDone(t) == \E s \in savers : s.owner = t /\ s.step = "done"

\* write_executable returns to the get of t
Joins(t) == pc[t] = "fetching" /\ wx[t] # None /\ pc'[t] = "fetched"

\* C19: integrity of download-verify-persist. write_executable returns Ok
\* only if the bytes have the expected hash and the save task has finished,
\* and then the file <folder>/<version>/solc holds exactly the bytes and the
\* path returned is that file; bytes with another hash make it fail with
\* HashMismatch, and the get that drove it leaves the slot empty.
C19_Integrity ==
    [][\A t \in Tasks :
           /\ Joins(t) =>
                  /\ fout'[t].tag = "ok" =>
                         /\ CheckHashsum(wx[t].data, wx[t].sha)
                         /\ SaveDone(t)
                         /\ disk'[Format(ver[t])] = wx[t].data
                         /\ fout'[t].val = SolcPath(Format(ver[t]))
                  /\ ~CheckHashsum(wx[t].data, wx[t].sha) =>
                         fout'[t] = Err("HashMismatch")
           /\ (pc[t] = "fetched" /\ fout[t] = Err("HashMismatch")
                   /\ pc'[t] = "ret") =>
                  slot'[ver[t]] = None /\ res'[t] = Err("HashMismatch")]_vars

\* C20: retry after an integrity failure. Once a write_executable for a
\* version has failed with HashMismatch, a later one for that version whose
\* bytes have the expected hash and whose save task finishes returns Ok, and
\* the file then holds exactly the new bytes.
C20_RetryOverwrites ==
    [][\A t \in Tasks :
           (Joins(t) /\ ver[t] \in mismatched /\ SaveDone(t)
                /\ CheckHashsum(wx[t].data, wx[t].sha)) =>
               /\ fout'[t] = Ok(FetchedPath(ver[t]))
               /\ disk'[Format(ver[t])] = wx[t].data]_vars

\* the folder has a directory for v whose solc file has the hash the fetcher
\* expects for v
Matches(v) ==
    /\ disk[Format(v)] \notin {NoDir, NoFile}
    /\ HasHash(v)
    /\ CheckHashsum(disk[Format(v)], Declared(v))

\* the fetcher expects a hash for w and the directory of w has no solc file
Unreadable(w) == HasHash(w) /\ disk[Format(w)] = NoFile

\* C14: disk reconciliation correctness. After load_from_dir on a new cache
\* the slot of v holds a path, the solc file of v's directory, exactly when
\* that directory is there, the fetcher has a hash for v and the file has it;
\* then get(v) returns that path without a fetcher call when v was
\* installed, and calls the fetcher when it was not.
C14_Reconciliation ==
    LoadOver =>
        \A v \in Versions :
            /\ fetchCount[v] = 0 =>
                   /\ slot[v] # None <=> Matches(v)
                   /\ slot[v] # None => slot[v] = SolcPath(Format(v))
            /\ \A t \in Tasks :
                   (pc[t] = "ret" /\ ver[t] = v) =>
                       IF Matches(v)
                       THEN res[t] = Ok(SolcPath(Format(v))) /\ fetchCount[v] = 0
                       ELSE fetchCount[v] >= 1

\* C15: a malformed single entry does not abort the scan. When a version
\* directory lacks its solc file although the fetcher has a hash for the
\* version, load_from_dir still installs every directory whose file matches.
C15_ScanNotAborted ==
    (LoadOver /\ \E w \in Versions : Unreadable(w)) =>
        \A v \in Versions : Matches(v) => v \in inMap /\ slot[v] # None

\* C16: refresh idempotence. When the value a tick has fetched equals the
\* snapshot, update_versions takes no write lock and the snapshot stays.
C16_RefreshIdempotent ==
    [][(rpc = "compare" /\ rnew = snap) =>
           /\ wlocks' = wlocks
           /\ snap' = snap
           /\ rpc' \in {"compare", "sleep"}]_vars

\* two ticks have fetched what the snapshot already was: both ended
\* without a write lock
C16_Witness ==
    /\ outcomes = <<"same", "same">>
    /\ rpc = "sleep"
    /\ wlocks = 0
    /\ snap = lastOk

\* C17: refresh takes effect. Once a tick is over the snapshot is the value
\* of the last successful fetch_versions, and every read made while the job
\* sleeps returns exactly that value; the snapshot changes only by the swap
\* of a tick, to the value that tick fetched.
C17_RefreshTakesEffect ==
    [][/\ rpc' = "sleep" => snap' = lastOk'
       /\ \A r \in Readers :
              (r \in rguards /\ r \notin rguards' /\ rpc = "sleep") =>
                  seen'[r] = lastOk
       /\ snap' # snap => rpc = "swap" /\ snap' = rnew]_vars

\* two ticks have each swapped in what the source listed at the time: one
\* reader has read the second value, the other still has the first
C17_Witness ==
    /\ outcomes = <<"swap", "swap">>
    /\ rpc = "sleep"
    /\ seen[1] = snap
    /\ seen[2] \in Snapshots /\ seen[2] # snap /\ seen[2] # {}

\* C18: refresh error handling. A tick whose fetch_versions fails leaves the
\* snapshot as it was, takes no write lock, makes no second attempt and
\* leaves the job waiting for its next tick.
C18_RefreshErrorKept ==
    [][(rpc = "fetch" /\ outcomes' = Append(outcomes, "err")) =>
           /\ snap' = snap
           /\ wlocks' = wlocks
           /\ rpc' = "sleep"]_vars

\* a tick has failed and the tick after it has swapped a new value in
C18_Witness ==
    /\ outcomes = <<"err", "swap">>
    /\ rpc = "sleep"
    /\ wlocks = 1
    /\ snap = upstream

\* the get of t is at the first line of S3Fetcher::fetch_file
AtFetchFile(t) == pc[t] = "fetching" /\ wx[t] = None /\ s3[t] = None

\* the step is one of the fetcher call of t
FetcherMoves(t) == pc'[t] # pc[t] \/ s3'[t] # s3[t] \/ wx'[t] # wx[t]

\* C21: S3Fetcher::fetch(v) with v not in the version list returns
\* NotFound(v) in its first step, in which no object GET is issued, no save
\* task is spawned and no file of the folder changes; a call that has
\* returned NotFound has issued no GET and awaits no save task
C21_NotFoundWithoutGet ==
    /\ [](\A t \in Tasks :
              pc[t] = "fetched" /\ fout[t] = Err("NotFound")
                  => /\ ver[t] \notin snap
                     /\ s3[t] = None
                     /\ \A s \in savers : s.owner # t)
    /\ [][\A t \in Tasks :
              AtFetchFile(t) /\ ver[t] \notin snap /\ FetcherMoves(t)
                  => /\ pc'[t] = "fetched"
                     /\ fout'[t] = Err("NotFound")
                     /\ s3' = s3
                     /\ savers' = savers
                     /\ disk' = disk]_vars

\* a get of a version the list does not hold has its NotFound
C21_Witness ==
    \E t \in Tasks :
        /\ pc[t] = "fetched"
        /\ ver[t] \notin snap
        /\ fout[t] = Err("NotFound")
        /\ s3[t] = None
        /\ snap # {}

\* the GET has answered, and with status 200
Answered200(r) == r.st = "ok" /\ r.code = 200

\* the get of t has called the fetcher, and fetch_file is past its join
Fetched(t) == pc[t] \in {"fetching", "fetched", "ret"} /\ Joined(t)

\* t awaits or has spawned a write_executable
Saves(t) == wx[t] # None \/ \E s \in savers : s.owner = t

\* C22: a fetch one of whose GETs failed or answered another status than
\* 200 spawns no save task and returns the error Fetch, which is what the
\* get returns; a fetch that saves a file or returns a path has had 200 from
\* both GETs, and its path comes with a binary whose digest is the body of
\* sha256.hash
C22_HashNeverSkipped ==
    \A t \in Tasks :
        Fetched(t) =>
            LET g == s3[t]
                good == Answered200(g.data) /\ Answered200(g.hash)
            IN  /\ ~good =>
                       /\ ~Saves(t)
                       /\ pc[t] = "fetched" => fout[t] = Err("Fetch")
                       /\ pc[t] = "ret" => res[t] = Err("Fetch")
                /\ Saves(t) => good
                /\ (pc[t] = "fetched" /\ fout[t].tag = "ok")
                   \/ (pc[t] = "ret" /\ res[t].tag = "ok")
                       => /\ good
                          /\ Is32Bytes(g.hash.body)
                          /\ CheckHashsum(g.data.body, g.hash.body)

\* one get has its Fetch error from a sha256.hash answered 404 beside a solc
\* answered 200, another has its path from two 200s
C22_Witness ==
    \E t, u \in Tasks :
        /\ pc[t] = "ret" /\ Joined(t)
        /\ s3[t].data = Response(200, Solc(ver[t]))
        /\ s3[t].hash = Response(404, Empty)
        /\ res[t] = Err("Fetch")
        /\ pc[u] = "ret" /\ Joined(u)
        /\ res[u] = Ok(FetchedPath(ver[u]))
        /\ Answered200(s3[u].data) /\ Answered200(s3[u].hash)

\* C24: whatever the two GETs answer, the fetch ends with a path or with a
\* FetchError: no task running it panics
C24_FetchTotal ==
    \A t \in Tasks : pc[t] # "aborted" /\ res[t].tag # "panic"

\* the versions a listing names, the prefix being the canonical name of the
\* version alone or followed by the delimiter
Denoted(l) == {v \in Versions : Format(v) \in l \/ Slashed(Format(v)) \in l}

\* C23: the version list made at construction, and the one every refresh
\* fetches, is the set of the versions the common prefixes of the listing
\* name, the prefixes ending with the delimiter among them; a prefix that
\* names no version is left out
C23_ListingParsed ==
    /\ snap = Denoted(listing)
    /\ [][rpc = "fetch" /\ rpc' = "compare" => rnew' = Denoted(listing)]_vars

\* C25: once the cache has a path for v, every get(v) that returns returns
\* that path, the fetcher is not called for v again and the path stays,
\* whether or not a refresh has taken v out of the fetcher's version list
C25_StaleRetained ==
    [][\A v \in Versions :
           slot[v] # None
               => /\ slot'[v] = slot[v]
                  /\ fetchCount'[v] = fetchCount[v]
                  /\ \A t \in Tasks :
                         ver[t] = v /\ pc[t] # "ret" /\ pc'[t] = "ret"
                             => res'[t] = Ok(slot[v])]_vars

\* a swap has taken v out of the version list, and a get(v) that made no
\* fetcher call has returned the path an earlier fetch stored
C25_Witness ==
    \E t \in Tasks :
        /\ pc[t] = "ret"
        /\ ver[t] \notin snap
        /\ wlocks >= 1
        /\ fetches[t] = 0
        /\ fetchCount[ver[t]] = 1
        /\ res[t] = Ok(FetchedPath(ver[t]))

\* C26: the value of the snapshot changes only under a write guard, which
\* is held while no read guard is; the job's swap puts in exactly the value
\* its tick has fetched, which is what one fetch_versions call returned; and
\* a reader gets the value of the snapshot while no writer is at work on it
C26_Wholesale ==
    /\ [](wguard # "free" => rguards = {})
    /\ [][(snap' # snap
              => /\ rguards = {}
                 /\ rguards' = {}
                 /\ \/ wguard = "writer" /\ wguard' = "writer"
                    \/ wguard = "free" /\ rpc = "swap" /\ snap' = rnew)
          /\ (rnew' # rnew /\ rnew' # NoList
                 => rpc = "fetch" /\ rnew' = upstream)
          /\ (rpc = "swap" => rnew' = rnew \/ rnew' = NoList)
          /\ (\A r \in Readers :
                 seen'[r] # seen[r]
                     => wguard = "free" /\ seen'[r] = snap /\ snap' = snap)]_vars

\* a reader has read the value a writer stored, while the job is about to
\* swap in the value its tick fetched
C26_Witness ==
    \E r \in Readers :
        /\ seen[r] = snap
        /\ snap # lastOk
        /\ wguard = "free"
        /\ rpc = "swap"
        /\ rguards # {}
        /\ rnew # snap

\* the save tasks of v
SaversOf(v) == {s \in savers : s.v = v}

\* C27: a step that changes the solc file of v is a step of a save task of
\* v, and it leaves the save tasks of the other versions, every other file
\* and the folder that is no version as they are; what a write_executable
\* returns is decided by its own bytes, hash and save task; and while v has
\* been downloaded once, a path returned for v comes with a file written to
\* its end, whatever is saved for the other versions
C27_Isolation ==
    /\ [](\A t \in Tasks :
              /\ pc[t] = "fetched"
              /\ fout[t].tag = "ok"
              /\ fetchCount[ver[t]] = 1
              => disk[Format(ver[t])] \in Downloads(ver[t]))
    /\ [][(\A v \in Versions :
               disk'[Format(v)] # disk[Format(v)]
                   => /\ SaversOf(v) \ savers' # {}
                      /\ \A w \in Versions \ {v} :
                             /\ disk'[Format(w)] = disk[Format(w)]
                             /\ SaversOf(w) \subseteq savers')
          /\ disk'[Garbage] = disk[Garbage]
          /\ (\A t \in Tasks :
                 wx[t] # None /\ pc'[t] = "fetched"
                     => \E s \in SaversOf(ver[t]) :
                            /\ s.owner = t
                            /\ fout'[t] = JoinResult(ver[t], wx[t].data,
                                                     wx[t].sha, s.step))]_vars

\* two write_executable calls for different versions are both past the
\* creation of their file
C27_Witness ==
    \E s, r \in savers :
        /\ s.v # r.v
        /\ s.owner # NoTask /\ r.owner # NoTask
        /\ s.step = "copy" /\ r.step = "done"
        /\ disk[Format(s.v)] = Empty
        /\ disk[Format(r.v)] = r.data

\* C28: every path a get(v) has returned is the path in the slot of v; a
\* slot is filled only with the path a fetcher call for v has returned to the
\* get that stores it, or with the solc path load_from_dir has found for v;
\* a fetcher call hands a path to a get only by returning; and while the
\* slot of v is empty and a fetcher call for v has not returned, no get(v)
\* returns
C28_NoPathWithoutSource ==
    /\ [](\A v \in Versions :
              okResults[v] # {} => slot[v] # None /\ okResults[v] = {slot[v]})
    /\ [][(\A v \in Versions :
               slot'[v] # slot[v]
                   => \E t \in Tasks :
                          /\ ver[t] = v
                          /\ \/ /\ pc[t] = "fetched" /\ pc'[t] = "ret"
                                /\ fout[t] = Ok(slot'[v])
                                /\ res'[t] = Ok(slot'[v])
                             \/ /\ pc[t] = "l_held" /\ pc'[t] = "l_stored"
                                /\ slot'[v] = Installed(solc[t]))
          /\ (\A t \in Tasks :
                 fout'[t] # fout[t] /\ fout'[t].tag = "ok"
                     => pc[t] = "fetching" /\ pc'[t] = "fetched")
          /\ (\A t \in Tasks :
                 InGet(t) /\ pc[t] # "ret" /\ pc'[t] = "ret"
                     => \/ slot[ver[t]] # None
                        \/ pc[t] = "fetched"
                        \/ ~\E u \in Tasks :
                               ver[u] = ver[t] /\ pc[u] = "fetching")]_vars

\* a get of v waits behind the only fetcher call for v, which has not
\* returned, while the slot of the other version holds the path
\* load_from_dir has installed
C28_Witness ==
    \E t, u \in Tasks :
        /\ pc[t] = "fetching" /\ fetchCount[ver[t]] = 1
        /\ slot[ver[t]] = None
        /\ pc[u] \in {"tg_wait", "f_wait"} /\ ver[u] = ver[t]
        /\ \E w \in Versions \ {ver[t]} :
               slot[w] = FetchedPath(w) /\ fetchCount[w] = 0

\* C29: without cancellation, under fair scheduling and with fetcher calls
\* that return, every get and every load_from_dir that has started returns;
\* and in no state are all the calls under way unable to step
C29_Termination ==
    /\ \A t \in Tasks : (pc[t] # "idle") ~> (pc[t] = "ret")
    /\ []((\E t \in Tasks : pc[t] # "idle")
              => \E t \in Tasks : pc[t] # "idle" /\ ENABLED Scheduled(t))

\* a load_from_dir waits for the write lock of an entry that a get holds
\* during its fetcher call
C29_Witness ==
    \E t, u \in Tasks :
        /\ pc[t] = "fetching"
        /\ pc[u] = "l_wait" /\ ver[u] = ver[t]
        /\ writer[ver[t]] = t

\* C30: no step takes a key out of the map; a get whose fetcher call failed
\* returns with the entry of its version in the map and the slot empty, and
\* stays in the map after; a later get finds that entry in try_get, and
\* or_default in fetch hands it out as it is
C30_KeysOnlyGrow ==
    /\ [](\A t \in Tasks :
              InGet(t) /\ pc[t] = "ret" /\ fetches[t] > 0 => ver[t] \in inMap)
    /\ [][(\A v \in Versions : v \in inMap => v \in inMap')
          /\ (\A t \in Tasks :
                 pc[t] = "fetched" /\ fout[t].tag = "err" /\ pc'[t] = "ret"
                     => /\ res'[t] = fout[t]
                        /\ ver[t] \in inMap'
                        /\ slot'[ver[t]] = None)
          /\ (\A t \in Tasks :
                 pc[t] = "tg_locked" /\ pc'[t] # pc[t] /\ ver[t] \in inMap
                     => pc'[t] = "tg_read")
          /\ (\A t \in Tasks :
                 pc[t] = "f_locked" /\ pc'[t] # pc[t] /\ ver[t] \in inMap
                     => inMap' = inMap /\ slot' = slot)]_vars

\* a get of v has returned NotFound, and a later get has found the entry it
\* left and holds its read guard over the empty slot
C30_Witness ==
    \E t, u \in Tasks :
        /\ pc[u] = "ret" /\ res[u] = Err("NotFound")
        /\ ver[t] = ver[u]
        /\ pc[t] = "tg_held"
        /\ slot[ver[t]] = None
        /\ fetchCount[ver[t]] = 1

\* C31: a download never blocks a refresh.  fetch_file holds the read guard
\* of the version list only inside the block of the membership check: a task
\* that holds it has no GET outstanding and no file write begun.  So whenever
\* the refresh job is at its swap and no task is inside that block, the write
\* lock is granted at once, downloads in flight or not.  And a download that
\* is past the check never looks at the list again: it always has a step to
\* take, and it never ends with NotFound, whatever the list has become.
PastCheck(t) == pc[t] = "fetching" /\ (s3[t] # None \/ wx[t] # None)

C31_DownloadsNeverBlockRefresh ==
    /\ [](\A t \in vread : AtFetchFile(t) /\ (\A s \in savers : s.owner # t))
    /\ []((rpc = "swap" /\ (\A t \in Tasks : PastCheck(t) \/ t \notin vread))
              => ENABLED Swap)
    /\ [](\A t \in Tasks : PastCheck(t) => ENABLED DownloadStep(t))
    /\ [][\A t \in Tasks :
              (PastCheck(t) /\ pc'[t] = "fetched") => fout'[t] # Err("NotFound")]_vars

\* a download is writing its file, its version was dropped from the list by
\* a swap after its check, the join that ends it is ready, and the refresh
\* job is at its next swap, which is granted
C31_Witness ==
    \E t \in Tasks :
        /\ PastCheck(t)
        /\ wx[t] # None
        /\ ver[t] \notin snap
        /\ wlocks >= 1
        /\ rpc = "swap"
        /\ ENABLED Swap
        /\ ENABLED Join(t)

====
